---- MODULE Spec2Model ----
(***************************************************************************)
(* A model of src/predict.py: Predictor.predict, the archive job that      *)
(* drives the 7z engine as a child process.                                *)
(*                                                                         *)
(* Strings are TLA+ strings, handled as Python handles them (concatenation,*)
(* substring search, lexicographic comparison by code point).  The log is  *)
(* the sequence of lines predict() prints.  Banner lines and the lines     *)
(* that only format byte sizes are left out of the log; the emoji that     *)
(* prefix the printed lines are left out of the text.                      *)
(*                                                                         *)
(* The engine is not part of the repository: its behaviour in one run (the *)
(* lines it writes to stdout and stderr, its exit status, the files it     *)
(* leaves in the output directory) is an input, held in `engine`.          *)
(***************************************************************************)
EXTENDS Integers, Sequences, FiniteSets, TLC

VARIABLES
    request,            \* the arguments of predict(): the JobRequest
    engine,             \* what the 7z child does in this run (environment)
    fs,                 \* the paths that exist in the file system
    pc,                 \* position of predict()
    compression_method, \* the local of that name (line 71 reassigns it)
    output_dir,         \* line 60
    idx,                \* loop index of the validation loop, line 73
    file_list,          \* line 65
    output_path,        \* line 93
    cmd,                \* line 96..154: the argument vector
    log,                \* the lines printed so far
    spawned,            \* how many times subprocess.Popen was called
    child,              \* "none" | "running" | "exited"
    script,             \* the writes the child has still to do
    out_pipe,           \* the child's stdout pipe (bounded)
    err_pipe,           \* the child's stderr pipe (bounded)
    emitted,            \* number of writes the child has completed
    stdout_lines,       \* line 174
    stderr_output,      \* line 194
    stderr_seqs,        \* emission numbers of the writes held in stderr_output
    reported,           \* emission numbers of the child output printed, in print order
    returncode,         \* process.returncode: <<>> is None, <<n>> once waited for
    volume_files,       \* line 228
    final_output,       \* line 241 / 250
    error,              \* message of the RuntimeError raised, "" when none
    result,             \* the path predict() returned, "" when none
    collected,          \* the artifact check of lines 225..252 was entered
    stats_reported,     \* the statistics of lines 254..261 were printed
    job_dirs            \* the output directories of the jobs run so far, in order

vars == <<request, engine, fs, pc, compression_method, output_dir, idx, file_list,
          output_path, cmd, log, spawned, child, script, out_pipe, err_pipe,
          emitted, stdout_lines, stderr_output, stderr_seqs, reported, returncode,
          volume_files, final_output, error, result, collected, stats_reported,
          job_dirs>>

(***************************************************************************)
(* Bounds of the model.                                                    *)
(***************************************************************************)
MaxFiles == 2
MaxLines == 3
PipeCap == 2
MaxJobs == 2

(***************************************************************************)
(* Strings.                                                                *)
(***************************************************************************)
Contains(s, t) ==
    \E i \in 1..(Len(s) - Len(t) + 1) : SubSeq(s, i, i + Len(t) - 1) = t

StartsWith(s, t) == Len(s) >= Len(t) /\ SubSeq(s, 1, Len(t)) = t

CharAt(s, i) == SubSeq(s, i, i)

Digits == "0123456789"

\* The characters of the path names that occur, in code-point order.
AsciiOrder == "./0123456789ABCDEFGHIJKLMNOPQRSTUVWXYZ_abcdefghijklmnopqrstuvwxyz"

Ord(c) == CHOOSE i \in 1..Len(AsciiOrder) : CharAt(AsciiOrder, i) = c

RECURSIVE IntToStr(_)
IntToStr(n) ==
    IF n < 10 THEN CharAt(Digits, n + 1)
    ELSE IntToStr(n \div 10) \o CharAt(Digits, (n % 10) + 1)

RECURSIVE Join(_, _)
Join(seq, sep) ==
    IF Len(seq) = 0 THEN ""
    ELSE IF Len(seq) = 1 THEN seq[1]
    ELSE seq[1] \o sep \o Join(Tail(seq), sep)

Whitespace == {" ", "\n", "\t", "\r"}

RECURSIVE RStrip(_)
RStrip(s) ==
    IF Len(s) > 0 /\ CharAt(s, Len(s)) \in Whitespace
    THEN RStrip(SubSeq(s, 1, Len(s) - 1))
    ELSE s

\* str.upper() on the format names.
Upper(fmt) == CASE fmt = "7z" -> "7Z" [] fmt = "zip" -> "ZIP" [] fmt = "tar" -> "TAR"

\* Python's < on str: lexicographic by code point, a proper prefix is smaller.
RECURSIVE StrLess(_, _)
StrLess(a, b) ==
    IF Len(b) = 0 THEN FALSE
    ELSE IF Len(a) = 0 THEN TRUE
    ELSE IF CharAt(a, 1) = CharAt(b, 1)
         THEN StrLess(SubSeq(a, 2, Len(a)), SubSeq(b, 2, Len(b)))
         ELSE Ord(CharAt(a, 1)) < Ord(CharAt(b, 1))

\* sorted() of a set of strings.
RECURSIVE SortedSeq(_)
SortedSeq(S) ==
    IF S = {} THEN <<>>
    ELSE LET m == CHOOSE x \in S : \A y \in S \ {x} : StrLess(x, y)
         IN  <<m>> \o SortedSeq(S \ {m})

\* seq[:n]
Take(seq, n) == SubSeq(seq, 1, IF n < Len(seq) THEN n ELSE Len(seq))

(***************************************************************************)
(* Input domains.                                                          *)
(***************************************************************************)
ExistingInput == "/in/a.txt"
MissingInput == "/in/missing.bin"
InputPaths == {ExistingInput, MissingInput}

Formats == {"7z", "zip", "tar"}
Methods == {"LZMA", "LZMA2", "PPMd", "BZip2", "Deflate", "Copy"}
Passwords == {"", "hunter2", "pwLZMA2"}
VolumeSizes == {"", "1m"}

\* uuid.uuid4().hex[:8]: eight hexadecimal digits drawn at random.
DirIds == {"0a1b2c3d", "deadbeef"}

\* Volume numbers the engine may leave behind.
VolumeIdx == {1, 2, 10, 999, 1000}

Streams == {"stdout", "stderr"}

SeqsUpTo(S, n) == UNION {[1..k -> S] : k \in 0..n}

(***************************************************************************)
(* Option resolution, lines 68..71.                                        *)
(***************************************************************************)
NeedsSubstitution(fmt, method) == fmt = "zip" /\ method = "LZMA2"

ResolveMethodKeep(fmt, method) == method

ResolveMethod(fmt, method) ==
    IF NeedsSubstitution(fmt, method) THEN "LZMA" ELSE method

(***************************************************************************)
(* The file system.                                                        *)
(***************************************************************************)
ExistsAlways(path, files) == TRUE

\* Path.exists()
Exists(path, files) == path \in files

\* output_dir.glob(pattern), pattern = prefix + "*": the entries of the
\* directory whose name starts with the prefix.
Glob(dir, prefix, files) ==
    {p \in files : StartsWith(p, dir \o "/" \o prefix)
                   /\ ~Contains(SubSeq(p, Len(dir) + 2, Len(p)), "/")}

(***************************************************************************)
(* Command construction, lines 88..154.                                    *)
(***************************************************************************)
OutputName(fmt, volume) ==
    IF volume # "" THEN "compressed." \o fmt \o ".001" ELSE "compressed." \o fmt

\* zip_methods.get(compression_method, "-mm=Deflate"), lines 118..126
ZipMethod(method) ==
    CASE method = "LZMA"    -> "-mm=LZMA"
      [] method = "LZMA2"   -> "-mm=LZMA"
      [] method = "PPMd"    -> "-mm=PPMd"
      [] method = "BZip2"   -> "-mm=BZip2"
      [] method = "Deflate" -> "-mm=Deflate"
      [] method = "Copy"    -> "-mm=Copy"
      [] OTHER              -> "-mm=Deflate"

MethodTokens(fmt, method, solid) ==
    IF fmt = "7z"
    THEN <<"-m0=" \o method, IF solid THEN "-ms=on" ELSE "-ms=off">>
    ELSE IF fmt = "zip" THEN <<ZipMethod(method)>>
    ELSE <<>>

PasswordTokens(fmt, password) ==
    IF password # ""
    THEN <<"-p" \o password>> \o (IF fmt = "7z" THEN <<"-mhe=on">> ELSE <<>>)
    ELSE <<>>

VolumeTokens(volume) == IF volume # "" THEN <<"-v" \o volume>> ELSE <<>>

BuildCmd(fmt, level, method, solid, password, volume, outpath, files) ==
    <<"7z", "a", "-t" \o fmt, "-mx=" \o IntToStr(level)>>
    \o MethodTokens(fmt, method, solid)
    \o PasswordTokens(fmt, password)
    \o VolumeTokens(volume)
    \o <<"-bsp1", "-bt", outpath>>
    \o files

\* The option lines printed while the command is built, lines 103..142.
OptionLines(fmt, level, method, solid, password, volume) ==
    (IF fmt = "7z"
     THEN <<"Compression method: " \o method>>
          \o (IF solid THEN <<"Solid archive: enabled">> ELSE <<>>)
     ELSE IF fmt = "zip" THEN <<"Compression method: " \o method>>
     ELSE <<"Archive format: tar (compression via level only)">>)
    \o (IF password # "" THEN <<"Password protection: enabled">> ELSE <<>>)
    \o (IF volume # "" THEN <<"Volume size: " \o volume>> ELSE <<>>)

CmdShowLimit == 20
CmdShowPrefix == 10

\* lines 158..161
CommandLine(c, files) ==
    IF Len(c) < CmdShowLimit
    THEN "Command: " \o Join(c, " ")
    ELSE "Command: " \o Join(Take(c, CmdShowPrefix), " ")
         \o "... [+" \o IntToStr(Len(files)) \o " files]"

(***************************************************************************)
(* The engine (the 7z child): what it leaves in the directory of the       *)
(* archive it was asked to write.  It names the parts of a split archive   *)
(* <base>.001, <base>.002, ...: three digits at least, more when needed.   *)
(***************************************************************************)
Pad3(n) ==
    IF n < 10 THEN "00" \o IntToStr(n)
    ELSE IF n < 100 THEN "0" \o IntToStr(n)
    ELSE IntToStr(n)

\* The archive operand of an argument vector: it follows "-bt" (line 151).
ArchiveArg(c) == c[(CHOOSE i \in 1..Len(c) : c[i] = "-bt") + 1]

IsSplit(c) == \E i \in 1..Len(c) : StartsWith(c[i], "-v")

EngineFiles(c, produces) ==
    IF IsSplit(c)
    THEN {SubSeq(ArchiveArg(c), 1, Len(ArchiveArg(c)) - 3) \o Pad3(n) : n \in produces}
    ELSE IF produces # {} THEN {ArchiveArg(c)} ELSE {}

(***************************************************************************)
(* Supervision, lines 164..195.                                            *)
(***************************************************************************)
PipeReadNewest(pipe) ==
    [item |-> pipe[Len(pipe)], rest |-> SubSeq(pipe, 1, Len(pipe) - 1)]

\* A read of a pipe returns the oldest line it holds.
PipeRead(pipe) == [item |-> Head(pipe), rest |-> Tail(pipe)]

SuccessWords == {"Everything", "OK", "Compressing", "Adding", "files,"}

\* lines 184..191
Classify(line) ==
    IF Contains(line, "%") THEN "[progress] " \o line
    ELSE IF \E w \in SuccessWords : Contains(line, w) THEN "[ok] " \o line
    ELSE IF Contains(line, "ERROR") \/ Contains(line, "Error") THEN "[error] " \o line
    ELSE "  " \o line

ExitFailedOnSignal(rc) == rc < 0

\* line 198
ExitFailed(rc) == rc # 0

FailListLimit == 5

\* lines 199..215
FailureLines(rc, errtext, c, files) ==
    <<"COMPRESSION FAILED", "Exit code: " \o IntToStr(rc)>>
    \o (IF errtext # "" THEN <<"Error output:", errtext>> ELSE <<>>)
    \o <<"7z command that was attempted:", Join(c, " "), "File paths being compressed:">>
    \o [i \in 1..Len(Take(files, FailListLimit)) |-> "  - " \o files[i]]
    \o (IF Len(files) > FailListLimit
        THEN <<"  ... and " \o IntToStr(Len(files) - FailListLimit) \o " more">>
        ELSE <<>>)

(***************************************************************************)
(* Artifact collection, lines 225..252.                                    *)
(***************************************************************************)
OutputMissingNever(path, files) == FALSE

\* line 245
OutputMissing(path, files) == ~Exists(path, files)

\* line 228
VolumeFiles(dir, fmt, files) == SortedSeq(Glob(dir, "compressed." \o fmt \o ".", files))

\* Path.name
BaseName(path, dir) == SubSeq(path, Len(dir) + 2, Len(path))

(***************************************************************************)
(* The errors predict() raises.                                            *)
(***************************************************************************)
MissingInputMsg(path) == "Input file does not exist: " \o path

EngineFailedMsg(rc) ==
    "Compression failed with exit code " \o IntToStr(rc)
    \o ". Check the output above for details."

NoVolumesMsg(dir, fmt) ==
    "No output volumes found in " \o dir \o "\nExpected pattern: compressed." \o fmt \o ".*"

NoOutputMsg(path) ==
    "Output file was not created: " \o path \o "\nCompression may have failed silently."

(***************************************************************************)
(* predict(), step by step.                                                *)
(***************************************************************************)
Terminal == {"done", "failed"}

\* lines 54..71: the output directory is made (mkdir(exist_ok=True): an
\* existing directory is taken as it is) and the method is resolved.
Begin ==
    /\ pc = "start"
    /\ \E id \in DirIds : output_dir' = "/tmp/p7zip_output_" \o id
    /\ fs' = fs \cup {output_dir'}
    /\ job_dirs' = Append(job_dirs, output_dir')
    /\ log' = log
              \o <<"Processing " \o IntToStr(Len(request.input_files)) \o " input file(s)...">>
              \o (IF NeedsSubstitution(request.archive_format, compression_method)
                  THEN <<"Warning: ZIP doesn't support LZMA2, using LZMA instead">>
                  ELSE <<>>)
    /\ compression_method' = ResolveMethod(request.archive_format, compression_method)
    /\ file_list' = <<>>
    /\ idx' = 1
    /\ pc' = "validate"
    /\ UNCHANGED <<request, engine, output_path, cmd, spawned, child, script, out_pipe,
                   err_pipe, emitted, stdout_lines, stderr_output, stderr_seqs, reported,
                   returncode, volume_files, final_output, error, result, collected,
                   stats_reported>>

\* lines 73..84: one turn of the loop over input_files.
ValidateFile ==
    /\ pc = "validate"
    /\ idx <= Len(request.input_files)
    /\ IF ~Exists(request.input_files[idx], fs)
       THEN /\ error' = MissingInputMsg(request.input_files[idx])
            /\ pc' = "failed"
            /\ UNCHANGED <<file_list, idx>>
       ELSE /\ file_list' = Append(file_list, request.input_files[idx])
            /\ idx' = idx + 1
            /\ UNCHANGED <<error, pc>>
    /\ UNCHANGED <<request, engine, fs, compression_method, output_dir, output_path, cmd,
                   log, spawned, child, script, out_pipe, err_pipe, emitted, stdout_lines,
                   stderr_output, stderr_seqs, reported, returncode, volume_files,
                   final_output, result, collected, stats_reported, job_dirs>>

\* lines 86..162: the loop is over; the command is built and printed.
BuildCommand ==
    /\ pc = "validate"
    /\ idx > Len(request.input_files)
    /\ output_path' = output_dir \o "/"
                      \o OutputName(request.archive_format, request.volume_size)
    /\ cmd' = BuildCmd(request.archive_format, request.compression_level,
                       compression_method, request.solid_archive, request.password,
                       request.volume_size, output_path', file_list)
    /\ log' = log
              \o OptionLines(request.archive_format, request.compression_level,
                             compression_method, request.solid_archive,
                             request.password, request.volume_size)
              \o <<"Starting compression...",
                   "Output format: " \o Upper(request.archive_format),
                   CommandLine(cmd', file_list)>>
    /\ pc' = "spawn"
    /\ UNCHANGED <<request, engine, fs, compression_method, output_dir, idx, file_list,
                   spawned, child, script, out_pipe, err_pipe, emitted, stdout_lines,
                   stderr_output, stderr_seqs, reported, returncode, volume_files,
                   final_output, error, result, collected, stats_reported, job_dirs>>

\* lines 165..175: subprocess.Popen
Spawn ==
    /\ pc = "spawn"
    /\ spawned' = spawned + 1
    /\ child' = "running"
    /\ script' = engine.script
    /\ out_pipe' = <<>>
    /\ err_pipe' = <<>>
    /\ stdout_lines' = <<>>
    /\ stderr_output' = ""
    /\ pc' = "read_stdout"
    /\ UNCHANGED <<request, engine, fs, compression_method, output_dir, idx, file_list,
                   output_path, cmd, log, emitted, stderr_seqs, reported, returncode,
                   volume_files, final_output, error, result, collected, stats_reported,
                   job_dirs>>

\* The child writes its next line; the write waits while the pipe is full.
ChildWrite ==
    /\ child = "running"
    /\ script # <<>>
    /\ LET w == Head(script)
           item == [seq |-> emitted + 1, text |-> w.text]
       IN  IF w.stream = "stdout"
           THEN /\ Len(out_pipe) < PipeCap
                /\ out_pipe' = Append(out_pipe, item)
                /\ UNCHANGED err_pipe
           ELSE /\ Len(err_pipe) < PipeCap
                /\ err_pipe' = Append(err_pipe, item)
                /\ UNCHANGED out_pipe
    /\ emitted' = emitted + 1
    /\ script' = Tail(script)
    /\ UNCHANGED <<request, engine, fs, pc, compression_method, output_dir, idx, file_list,
                   output_path, cmd, log, spawned, child, stdout_lines, stderr_output,
                   stderr_seqs, reported, returncode, volume_files, final_output, error,
                   result, collected, stats_reported, job_dirs>>

\* The child has written everything: it leaves its files and exits, which
\* closes its ends of both pipes.
ChildExit ==
    /\ child = "running"
    /\ script = <<>>
    /\ child' = "exited"
    /\ fs' = fs \cup EngineFiles(cmd, engine.produces)
    /\ UNCHANGED <<request, engine, pc, compression_method, output_dir, idx, file_list,
                   output_path, cmd, log, spawned, script, out_pipe, err_pipe, emitted,
                   stdout_lines, stderr_output, stderr_seqs, reported, returncode,
                   volume_files, final_output, error, result, collected, stats_reported,
                   job_dirs>>

\* lines 179..191: one turn of `for line in process.stdout`.
ReadStdoutLine ==
    /\ pc = "read_stdout"
    /\ out_pipe # <<>>
    /\ LET item == PipeRead(out_pipe).item
           line == RStrip(item.text)
       IN  /\ stdout_lines' = Append(stdout_lines, line)
           /\ IF line # ""
              THEN /\ log' = Append(log, Classify(line))
                   /\ reported' = Append(reported, item.seq)
              ELSE UNCHANGED <<log, reported>>
           /\ out_pipe' = PipeRead(out_pipe).rest
    /\ UNCHANGED <<request, engine, fs, pc, compression_method, output_dir, idx, file_list,
                   output_path, cmd, spawned, child, script, err_pipe, emitted,
                   stderr_output, stderr_seqs, returncode, volume_files, final_output,
                   error, result, collected, stats_reported, job_dirs>>

\* The loop over process.stdout ends at end-of-stream: the pipe is empty and
\* the child has closed it.
StdoutEOF ==
    /\ pc = "read_stdout"
    /\ out_pipe = <<>>
    /\ child = "exited"
    /\ pc' = "read_stderr"
    /\ UNCHANGED <<request, engine, fs, compression_method, output_dir, idx, file_list,
                   output_path, cmd, log, spawned, child, script, out_pipe, err_pipe,
                   emitted, stdout_lines, stderr_output, stderr_seqs, reported, returncode,
                   volume_files, final_output, error, result, collected, stats_reported,
                   job_dirs>>

\* line 194: process.stderr.read() takes what the pipe holds ...
DrainStderr ==
    /\ pc = "read_stderr"
    /\ err_pipe # <<>>
    /\ stderr_output' = stderr_output \o PipeRead(err_pipe).item.text
    /\ stderr_seqs' = Append(stderr_seqs, PipeRead(err_pipe).item.seq)
    /\ err_pipe' = PipeRead(err_pipe).rest
    /\ UNCHANGED <<request, engine, fs, pc, compression_method, output_dir, idx, file_list,
                   output_path, cmd, log, spawned, child, script, out_pipe, emitted,
                   stdout_lines, reported, returncode, volume_files, final_output, error,
                   result, collected, stats_reported, job_dirs>>

\* ... and returns at end-of-stream; line 195: process.wait()
WaitChild ==
    /\ pc = "read_stderr"
    /\ err_pipe = <<>>
    /\ child = "exited"
    /\ returncode' = <<engine.exit_code>>
    /\ pc' = "check"
    /\ UNCHANGED <<request, engine, fs, compression_method, output_dir, idx, file_list,
                   output_path, cmd, log, spawned, child, script, out_pipe, err_pipe,
                   emitted, stdout_lines, stderr_output, stderr_seqs, reported,
                   volume_files, final_output, error, result, collected, stats_reported,
                   job_dirs>>

\* lines 198..223
CheckExit ==
    /\ pc = "check"
    /\ IF ExitFailed(returncode[1])
       THEN /\ log' = log \o FailureLines(returncode[1], stderr_output, cmd, file_list)
            /\ reported' = reported \o (IF stderr_output # "" THEN stderr_seqs ELSE <<>>)
            /\ error' = EngineFailedMsg(returncode[1])
            /\ pc' = "failed"
       ELSE /\ log' = Append(log, "Compression completed successfully!")
            /\ pc' = "collect"
            /\ UNCHANGED <<reported, error>>
    /\ UNCHANGED <<request, engine, fs, compression_method, output_dir, idx, file_list,
                   output_path, cmd, spawned, child, script, out_pipe, err_pipe, emitted,
                   stdout_lines, stderr_output, stderr_seqs, returncode, volume_files,
                   final_output, result, collected, stats_reported, job_dirs>>

\* lines 225..252
Collect ==
    /\ pc = "collect"
    /\ collected' = TRUE
    /\ IF request.volume_size # ""
       THEN LET vols == VolumeFiles(output_dir, request.archive_format, fs)
            IN  /\ volume_files' = vols
                /\ IF vols = <<>>
                   THEN /\ error' = NoVolumesMsg(output_dir, request.archive_format)
                        /\ pc' = "failed"
                        /\ UNCHANGED <<final_output, log>>
                   ELSE /\ final_output' = vols[1]
                        /\ log' = log
                                  \o <<"Created " \o IntToStr(Len(vols)) \o " volume(s)">>
                                  \o [i \in 1..Len(vols) |-> "  - " \o BaseName(vols[i], output_dir)]
                                  \o <<"Returning first volume: " \o BaseName(vols[1], output_dir)>>
                        /\ pc' = "report"
                        /\ UNCHANGED error
       ELSE /\ IF OutputMissing(output_path, fs)
               THEN /\ error' = NoOutputMsg(output_path)
                    /\ pc' = "failed"
                    /\ UNCHANGED final_output
               ELSE /\ final_output' = output_path
                    /\ pc' = "report"
                    /\ UNCHANGED error
            /\ UNCHANGED <<volume_files, log>>
    /\ UNCHANGED <<request, engine, fs, compression_method, output_dir, idx, file_list,
                   output_path, cmd, spawned, child, script, out_pipe, err_pipe, emitted,
                   stdout_lines, stderr_output, stderr_seqs, reported, returncode, result,
                   stats_reported, job_dirs>>

\* lines 254..267
Report ==
    /\ pc = "report"
    /\ stats_reported' = TRUE
    /\ log' = log \o <<"COMPRESSION STATISTICS", "Process complete!">>
    /\ result' = final_output
    /\ pc' = "done"
    /\ UNCHANGED <<request, engine, fs, compression_method, output_dir, idx, file_list,
                   output_path, cmd, spawned, child, script, out_pipe, err_pipe, emitted,
                   stdout_lines, stderr_output, stderr_seqs, reported, returncode,
                   volume_files, final_output, error, collected, job_dirs>>

Next ==
    \/ Begin
    \/ ValidateFile
    \/ BuildCommand
    \/ Spawn
    \/ ChildWrite
    \/ ChildExit
    \/ ReadStdoutLine
    \/ StdoutEOF
    \/ DrainStderr
    \/ WaitChild
    \/ CheckExit
    \/ Collect
    \/ Report

(***************************************************************************)
(* A new call of predict() on the same Predictor: the locals are fresh,    *)
(* the file system is what the earlier jobs left (the output directories   *)
(* are not cleaned, line 58).                                              *)
(***************************************************************************)
FreshLocals(req) ==
    /\ pc = "start"
    /\ compression_method = req.compression_method
    /\ output_dir = ""
    /\ idx = 1
    /\ file_list = <<>>
    /\ output_path = ""
    /\ cmd = <<>>
    /\ log = <<>>
    /\ spawned = 0
    /\ child = "none"
    /\ script = <<>>
    /\ out_pipe = <<>>
    /\ err_pipe = <<>>
    /\ emitted = 0
    /\ stdout_lines = <<>>
    /\ stderr_output = ""
    /\ stderr_seqs = <<>>
    /\ reported = <<>>
    /\ returncode = <<>>
    /\ volume_files = <<>>
    /\ final_output = ""
    /\ error = ""
    /\ result = ""
    /\ collected = FALSE
    /\ stats_reported = FALSE

Requests(files, formats, methods, levels, passwords, solids, volumes) ==
    [input_files : files, archive_format : formats, compression_method : methods,
     compression_level : levels, password : passwords, solid_archive : solids,
     volume_size : volumes]

Writes(texts) == [stream : Streams, text : texts]

Engines(scripts, codes, products) ==
    [script : scripts, exit_code : codes, produces : products]

InitWith(reqs, engines) ==
    /\ request \in reqs
    /\ engine \in engines
    /\ fs = {ExistingInput}
    /\ job_dirs = <<>>
    /\ FreshLocals(request)

\* The options vary; the engine writes one line at most.
OptionRequests ==
    Requests(SeqsUpTo(InputPaths, MaxFiles), Formats, Methods, {5}, Passwords,
             BOOLEAN, VolumeSizes)

OptionEngines ==
    Engines(SeqsUpTo(Writes({"Everything is Ok\n"}), 1), {0, 2}, {{}, {1}})

Init == InitWith(OptionRequests, OptionEngines)

Spec == Init /\ [][Next]_vars

\* Split archives: the engine leaves any set of volumes.
VolumeRequests ==
    Requests({<<ExistingInput>>}, {"7z", "zip"}, {"LZMA2"}, {5}, {""}, {TRUE}, {"1m"})

VolumeEngines ==
    Engines(SeqsUpTo(Writes({"Everything is Ok\n"}), 1), {0, 2}, SUBSET VolumeIdx)

InitVolumes == InitWith(VolumeRequests, VolumeEngines)

SpecVolumes == InitVolumes /\ [][Next]_vars

\* Supervision: the engine writes any lines to either stream in any order.
SuperviseRequests ==
    Requests({<<ExistingInput>>}, {"7z"}, {"LZMA2"}, {5}, {""}, {TRUE}, {""})

SuperviseEngines ==
    Engines(SeqsUpTo(Writes({"Everything is Ok\n", "\n"}), MaxLines), {0, 2}, {{1}})

InitSupervise == InitWith(SuperviseRequests, SuperviseEngines)

SpecSupervise == InitSupervise /\ [][Next]_vars

\* Several jobs, one after another.
JobRequests ==
    Requests({<<ExistingInput>>}, {"7z"}, {"LZMA2"}, {5}, {""}, {TRUE}, VolumeSizes)

JobEngines ==
    Engines(SeqsUpTo(Writes({"Everything is Ok\n"}), 1), {0, 2}, {{}, {1, 2}})

NewJob ==
    /\ pc \in Terminal
    /\ Len(job_dirs) < MaxJobs
    /\ request' \in JobRequests
    /\ engine' \in JobEngines
    /\ pc' = "start"
    /\ compression_method' = request'.compression_method
    /\ output_dir' = ""
    /\ idx' = 1
    /\ file_list' = <<>>
    /\ output_path' = ""
    /\ cmd' = <<>>
    /\ log' = <<>>
    /\ spawned' = 0
    /\ child' = "none"
    /\ script' = <<>>
    /\ out_pipe' = <<>>
    /\ err_pipe' = <<>>
    /\ emitted' = 0
    /\ stdout_lines' = <<>>
    /\ stderr_output' = ""
    /\ stderr_seqs' = <<>>
    /\ reported' = <<>>
    /\ returncode' = <<>>
    /\ volume_files' = <<>>
    /\ final_output' = ""
    /\ error' = ""
    /\ result' = ""
    /\ collected' = FALSE
    /\ stats_reported' = FALSE
    /\ UNCHANGED <<fs, job_dirs>>

InitJobs == InitWith(JobRequests, JobEngines)

NextJobs == Next \/ NewJob

SpecJobs == InitJobs /\ [][NextJobs]_vars

(***************************************************************************)
(* Properties.                                                             *)
(***************************************************************************)
Range(seq) == {seq[i] : i \in DOMAIN seq}

MissingPositions == {i \in DOMAIN request.input_files : request.input_files[i] \notin fs}

IsInvalidOption(e) == StartsWith(e, "Input file does not exist: ")
IsMissingOutput(e) ==
    StartsWith(e, "Output file was not created: ") \/ StartsWith(e, "No output volumes found in ")

\* C1: a request with a path that does not exist never gets past the
\* validation loop: the loop stops at the first missing path at the latest,
\* the job fails with the missing-input error, and no child is ever spawned.
C1_MissingInputNeverSpawns ==
    MissingPositions # {} =>
        /\ spawned = 0
        /\ child = "none"
        /\ pc \in {"start", "validate", "failed"}
        /\ (pc = "validate" => \E i \in MissingPositions : idx <= i)
        /\ (pc = "failed" => IsInvalidOption(error))

C1_Witness ==
    /\ Len(request.input_files) = 2
    /\ MissingPositions = {2}
    /\ pc = "failed"
    /\ error = MissingInputMsg(MissingInput)
    /\ file_list = <<ExistingInput>>
    /\ spawned = 0

\* C2: once the child has exited with a non-zero status the job can only go
\* on to fail with that exit code: no artifact is collected, no statistics
\* are reported, nothing is returned, and the engine was spawned exactly once.
C2_NonZeroExitFails ==
    (child = "exited" /\ engine.exit_code # 0) =>
        /\ pc \in {"read_stdout", "read_stderr", "check", "failed"}
        /\ (pc = "failed" => error = EngineFailedMsg(engine.exit_code))
        /\ (returncode # <<>> => returncode = <<engine.exit_code>>)
        /\ ~collected
        /\ ~stats_reported
        /\ volume_files = <<>>
        /\ final_output = ""
        /\ result = ""
        /\ spawned = 1

C2_Witness ==
    /\ pc = "failed"
    /\ returncode = <<2>>
    /\ error = EngineFailedMsg(2)
    /\ spawned = 1
    /\ EngineFiles(cmd, engine.produces) # {}

ArtifactAbsent ==
    IF request.volume_size = ""
    THEN output_path \notin fs
    ELSE Glob(output_dir, "compressed." \o request.archive_format \o ".", fs) = {}

\* C3: a job whose engine exited with status zero without leaving the
\* expected artifact ends Failed with the missing-output error and returns
\* nothing; a job that ends Done returns a path that exists.
C3_MissingArtifactFails ==
    /\ (pc \in Terminal /\ returncode = <<0>> /\ ArtifactAbsent) =>
           (pc = "failed" /\ IsMissingOutput(error) /\ result = "")
    /\ (pc = "done" => (result # "" /\ result \in fs /\ returncode = <<0>>))

C3_Witness ==
    /\ pc = "failed"
    /\ returncode = <<0>>
    /\ request.volume_size = ""
    /\ output_path \notin fs
    /\ error = NoOutputMsg(output_path)
    /\ result = ""

\* C4: a request with no input files fails during validation: no argument
\* vector is handed to the engine and no child is spawned.
C4_EmptyInputFails ==
    Len(request.input_files) = 0 =>
        (spawned = 0 /\ pc \in {"start", "validate", "failed"})

\* The number a string of decimal digits denotes.
RECURSIVE StrToInt(_)
StrToInt(s) ==
    IF Len(s) = 0 THEN 0
    ELSE 10 * StrToInt(SubSeq(s, 1, Len(s) - 1)) + (Ord(CharAt(s, Len(s))) - Ord("0"))

\* The number at the end of a volume's name.
VolumeIndex(path) ==
    StrToInt(SubSeq(path,
                    Len(output_dir \o "/compressed." \o request.archive_format \o ".") + 1,
                    Len(path)))

\* C5: when a split job is Done, the collected volumes are in ascending
\* order of their numbers and the returned artifact is the volume with the
\* lowest number.
C5_VolumesInNumericOrder ==
    (pc = "done" /\ request.volume_size # "") =>
        /\ \A i, j \in DOMAIN volume_files :
               i < j => VolumeIndex(volume_files[i]) < VolumeIndex(volume_files[j])
        /\ \A i \in DOMAIN volume_files :
               VolumeIndex(result) <= VolumeIndex(volume_files[i])

\* C6: no two jobs use the same output directory, and the volumes a job
\* collects are files its own engine wrote.
C6_JobsOwnTheirDirectory ==
    /\ \A i, j \in DOMAIN job_dirs : i # j => job_dirs[i] # job_dirs[j]
    /\ pc = "done" => Range(volume_files) \subseteq EngineFiles(cmd, engine.produces)

ZipLzma2Requested ==
    request.archive_format = "zip" /\ request.compression_method = "LZMA2"

\* C7 as stated: for zip with LZMA2 requested, the method becomes LZMA, the
\* argument vector holds -mm=LZMA, and no token of it contains LZMA2.
C7_NoTokenContainsLzma2 ==
    (ZipLzma2Requested /\ cmd # <<>>) =>
        /\ compression_method = "LZMA"
        /\ "-mm=LZMA" \in Range(cmd)
        /\ \A i \in DOMAIN cmd : ~Contains(cmd[i], "LZMA2")

\* C7 as amended: for zip with LZMA2 requested, the method becomes LZMA
\* with a notice on the log and no error, the argument vector holds
\* -mm=LZMA, and no option token that begins with -m (a method selector)
\* contains LZMA2.
C7_MethodTokenIsLzma ==
    (ZipLzma2Requested /\ pc # "start") =>
        /\ compression_method = "LZMA"
        /\ "Warning: ZIP doesn't support LZMA2, using LZMA instead" \in Range(log)
        /\ (pc = "validate" => error = "")
        /\ (cmd # <<>> =>
               /\ "-mm=LZMA" \in Range(cmd)
               /\ \A i \in DOMAIN cmd :
                      StartsWith(cmd[i], "-m") => ~Contains(cmd[i], "LZMA2"))

C7_Witness ==
    /\ ZipLzma2Requested
    /\ request.password = "pwLZMA2"
    /\ pc = "done"
    /\ spawned = 1
    /\ "-mm=LZMA" \in Range(cmd)
    /\ "-ppwLZMA2" \in Range(cmd)

\* The stream of the child's k-th write.
StreamOf(k) == engine.script[k].stream

\* C8 as stated: any two pieces of child output are printed in the order in
\* which the child wrote them.
C8_ReportedInEmissionOrder ==
    \A i, j \in DOMAIN reported : i < j => reported[i] < reported[j]

\* C8 as amended: the lines of one stream are printed in the order in which
\* the child wrote them; what the child wrote to stderr is printed after all
\* the stdout lines, and only when the job fails.
C8_ReportedInStreamOrder ==
    /\ \A i, j \in DOMAIN reported :
           i < j =>
               IF StreamOf(reported[i]) = StreamOf(reported[j])
               THEN reported[i] < reported[j]
               ELSE StreamOf(reported[i]) = "stdout" /\ StreamOf(reported[j]) = "stderr"
    /\ (\E i \in DOMAIN reported : StreamOf(reported[i]) = "stderr") => pc = "failed"

C8_Witness ==
    /\ pc = "failed"
    /\ Len(reported) = 3
    /\ StreamOf(reported[1]) = "stdout"
    /\ StreamOf(reported[2]) = "stdout"
    /\ StreamOf(reported[3]) = "stderr"
    /\ reported[3] < reported[1]
    /\ reported[1] < reported[2]

\* C9: supervision never deadlocks: until the job is Done or Failed, the
\* child or the supervisor can always take a step.
C9_SupervisionNeverStuck == pc \in Terminal \/ ENABLED Next

\* C10: the password does not occur in any line of the log.
C10_PasswordNotInLog ==
    request.password # "" =>
        \A i \in DOMAIN log : ~Contains(log[i], request.password)

====
